---- MODULE Spec2Model ----
(***************************************************************************)
(* Model of the yt_downloader Django application: the TemporaryDownload    *)
(* table, the files under MEDIA_ROOT/downloads, the clock, and the request *)
(* handlers of downloader/views.py (home, download_video, convert_view,    *)
(* download_from_link), the sweep of downloader/utils.py and the           *)
(* cleanup_downloads management command.  Each worker handles one request *)
(* at a time; a handler is a sequence of steps (its position is pc[w]),    *)
(* and the clock and the file system may move between two steps.           *)
(***************************************************************************)
EXTENDS Integers, Sequences, FiniteSets, TLC

\* ------------------------------------------------------------------ bounds
\* The clock runs from 0 to MaxTime (one unit is one hour).
MaxTime == 3
\* At most MaxIds records are ever created (uuid4 values 1..MaxIds).
MaxIds == 2
\* A url is a head followed by at most MaxTail pieces.
MaxTail == 3
\* yt-dlp reports at most MaxFormats formats of a video.
MaxFormats == 4

\* ------------------------------------------------------- program constants
\* timedelta(hours=1) of TemporaryDownload.save, in clock units.
Hour == 1
\* range(3) of both retry loops.
MaxAttempts == 3
\* [\w-]{11}: the length of a video id.
IdLen == 11

\* The request workers: requests are handled one after the other.
Workers == {"w1"}
\* The output paths '%(title)s.mp4' under MEDIA_ROOT/downloads, one per title.
Paths == {"a.mp4", "b.mp4"}
\* What os.path.exists / os.path.getsize see at a path.
FileStates == {"absent", "empty", "data"}

VARIABLES now, records, files, nextId, pc, loc, u, fm

vars == <<now, records, files, nextId, pc, loc, u, fm>>

\* A row of TemporaryDownload that get_object_or_404 did not find.
NoRec == [id |-> 0, created_at |-> 0, expires_at |-> 0, file_path |-> "none"]

\* The url under resolution (the second specification): the posted string,
\* the number of pieces appended to it, and what home made of it.
NoUrl == [url |-> <<>>, n |-> 0, out |-> "none", vid |-> <<>>]

\* The format catalog under construction (the third specification): the
\* formats yt-dlp reported, whether home has built its list from them, and
\* the streams_for_template it built.
NoFm == [raw |-> <<>>, built |-> FALSE, out |-> <<>>]

\* The locals of a handler before a request starts.  stale is not a local:
\* it records, for a request that names a download_id, whether the record of
\* that id existed and was past its expires_at when the request arrived.
InitLoc ==
    [op |-> "none", id |-> 0, t |-> 0, snap |-> {}, rec |-> NoRec, tchk |-> 0,
     out |-> "none", count |-> 0, attempt |-> 0, errs |-> <<>>,
     sleeps |-> 0, path |-> "none", missing |-> <<>>, cause |-> "none",
     vid |-> <<>>, created |-> 0, queried |-> 0, dfp |-> "none",
     file_size |-> "none", given |-> <<>>, stale |-> FALSE, expires_at |-> 0,
     swept |-> FALSE, cur |-> "none"]

Init ==
    /\ now = 0
    /\ records = {}
    /\ files = [p \in Paths |-> "absent"]
    /\ nextId = 1
    /\ pc = [w \in Workers |-> "done"]
    /\ loc = [w \in Workers |-> InitLoc]
    /\ u = NoUrl
    /\ fm = NoFm

\* ------------------------------------------------------------- environment
\* timezone.now() grows between any two steps.
Tick ==
    /\ now < MaxTime
    /\ now' = now + 1
    /\ UNCHANGED <<fm, u, records, files, nextId, pc, loc>>

\* External interference: a file of the download directory is deleted by hand.
ExternalRemove(p) ==
    /\ files[p] # "absent"
    /\ files' = [files EXCEPT ![p] = "absent"]
    /\ UNCHANGED <<fm, u, now, records, nextId, pc, loc>>

\* ------------------------------------------------------------ URL strings
\* A string is the sequence of its characters.
\* The characters \w matches (ASCII letters, digits, underscore).
WordChars ==
    {"a", "b", "c", "d", "e", "f", "g", "h", "i", "j", "k", "l", "m", "n",
    "o", "p", "q", "r", "s", "t", "u", "v", "w", "x", "y", "z", "A", "B",
    "C", "D", "E", "F", "G", "H", "I", "J", "K", "L", "M", "N", "O", "P",
    "Q", "R", "S", "T", "U", "V", "W", "X", "Y", "Z", "0", "1", "2", "3",
    "4", "5", "6", "7", "8", "9", "_"}

\* [\w-]: a character of a video id.
IsIdChar(c) == c \in WordChars \/ c = "-"

\* The literals of the patterns of validate_youtube_url and extract_video_id.
L_http == <<"h", "t", "t", "p", ":", "/", "/">>
L_https == <<"h", "t", "t", "p", "s", ":", "/", "/">>
L_www == <<"w", "w", "w", ".">>
L_watch == <<"y", "o", "u", "t", "u", "b", "e", ".", "c", "o", "m", "/", "w", "a", "t", "c", "h", "?", "v", "=">>
L_short == <<"y", "o", "u", "t", "u", ".", "b", "e", "/">>
L_shorts == <<"y", "o", "u", "t", "u", "b", "e", ".", "c", "o", "m", "/", "s", "h", "o", "r", "t", "s", "/">>
L_live == <<"y", "o", "u", "t", "u", "b", "e", ".", "c", "o", "m", "/", "l", "i", "v", "e", "/">>
L_embed == <<"y", "o", "u", "t", "u", "b", "e", ".", "c", "o", "m", "/", "e", "m", "b", "e", "d", "/">>
L_in_watch == <<"y", "o", "u", "t", "u", "b", "e", ".", "c", "o", "m", "/", "w", "a", "t", "c", "h">>
L_v == <<"v", "=">>
L_s_shorts == <<"s", "h", "o", "r", "t", "s", "/">>
L_s_live == <<"l", "i", "v", "e", "/">>
L_s_embed == <<"e", "m", "b", "e", "d", "/">>

\* lit occurs in s at position i.
LitAt(s, i, lit) ==
    /\ i >= 1
    /\ i + Len(lit) - 1 <= Len(s)
    /\ \A k \in 1..Len(lit) : s[i + k - 1] = lit[k]

\* [\w-]{11} matches in s at position i.
IdAt(s, i) ==
    /\ i >= 1
    /\ i + IdLen - 1 <= Len(s)
    /\ \A k \in 0..(IdLen - 1) : IsIdChar(s[i + k])

\* 'lit' in s.
Contains(s, lit) == \E i \in 1..Len(s) : LitAt(s, i, lit)

\* str.strip(): leading and trailing blanks removed.
Strip(s) ==
    LET nb == {i \in 1..Len(s) : s[i] # " "}
    IN  IF nb = {} THEN <<>>
        ELSE LET lo == CHOOSE i \in nb : \A j \in nb : i <= j
                 hi == CHOOSE i \in nb : \A j \in nb : i >= j
             IN  SubSeq(s, lo, hi)

\* The five shapes of validate_youtube_url, as the literal prefixes each
\* pattern accepts before [\w-]{11} (https? and the optional www\. expanded).
ShapePrefixes ==
    {sch \o www \o L_watch : sch \in {L_http, L_https}, www \in {<<>>, L_www}}
    \cup {sch \o L_short : sch \in {L_http, L_https}}
    \cup {sch \o www \o h : sch \in {L_http, L_https}, www \in {<<>>, L_www},
                            h \in {L_shorts, L_live, L_embed}}

\* re.match(pattern, url) for one expanded pattern: anchored at the start,
\* the literal prefix and then eleven id characters; what follows is free.
MatchesPrefix(url, pre) == LitAt(url, 1, pre) /\ IdAt(url, Len(pre) + 1)

\* validate_youtube_url(url).
validate_youtube_url(url) == \E pre \in ShapePrefixes : MatchesPrefix(url, pre)

\* re.search(lit + '([\w-]{11})', url).group(1), or None (the empty
\* sequence): the leftmost place where the literal and eleven id characters
\* follow each other.
SearchId(url, lit) ==
    LET hits == {i \in 1..Len(url) : LitAt(url, i, lit) /\ IdAt(url, i + Len(lit))}
    IN  IF hits = {} THEN <<>>
        ELSE LET i == CHOOSE h \in hits : \A g \in hits : h <= g
             IN  SubSeq(url, i + Len(lit), i + Len(lit) + IdLen - 1)

\* extract_video_id(url): the first branch whose marker occurs in the url
\* decides, wherever in the url the marker stands.
extract_video_id(url) ==
    IF Contains(url, L_short) THEN SearchId(url, L_short)
    ELSE IF Contains(url, L_in_watch) THEN SearchId(url, L_v)
    ELSE IF Contains(url, L_shorts) THEN SearchId(url, L_s_shorts)
    ELSE IF Contains(url, L_live) THEN SearchId(url, L_s_live)
    ELSE IF Contains(url, L_embed) THEN SearchId(url, L_s_embed)
    ELSE <<>>


\* ------------------------------------------------------------------- model
\* TemporaryDownload.is_expired: timezone.now() > self.expires_at.
is_expiredWrong(t, e) == t > e + 1
is_expired(t, e) == t > e

\* filter(expires_at__lte=t): the rows the sweep selects.
expired_filterWrong(rs, t) == {r \in rs : r.expires_at < t}
expired_filterWide(rs, t) == {r \in rs : r.expires_at <= t + 1}
expired_filter(rs, t) == {r \in rs : r.expires_at <= t}

\* os.path.exists(path).
existsWrong(fs, p) == TRUE
exists(fs, p) == fs[p] # "absent"

RemoveHandlerNarrow(e) == IF e = "FileNotFoundError" THEN "raise" ELSE "pass"
RemoveHandlerRaises(e) == "raise"

\* What the except clause around os.remove does with error e: `except:
\* pass` in utils.py 27-28, `except Exception` and a line of output in the
\* command (18-19), `except Exception` and a log line in the expired branch
\* of the retrieval views (views.py 379-380, 404-405).
RemoveHandler(e) == "pass"

\* The step that follows cleanup_expired_downloads() in each view.
AfterSweep(op) ==
    CASE op = "home" -> "validate"
      [] op = "download_video" -> "params"
      [] op = "cleanup_command" -> "cmd_report"
      [] OTHER -> "get"

FirstPcSkipsSweep(op) == AfterSweep(op)

\* The first step of each handler after the request arrived: every view
\* begins with cleanup_expired_downloads().
FirstPc(op) == IF op = "cleanup_command" THEN "cmd_count" ELSE "sweep_begin"

\* cleanup_expired_downloads, its first two lines: the queryset is built with
\* the clock's value and the for loop runs the query.
SweepBegin(w) ==
    /\ pc[w] = "sweep_begin"
    /\ loc' = [loc EXCEPT ![w].t = now,
                          ![w].snap = {r.file_path : r \in expired_filter(records, now)}]
    /\ pc' = [pc EXCEPT ![w] = "sweep_files"]
    /\ UNCHANGED <<fm, u, now, records, files, nextId>>

\* The loop body: os.remove of every selected file that exists; an error of
\* os.remove is swallowed (the files of `failed` stay).
SweepFiles(w) ==
    /\ pc[w] = "sweep_files"
    /\ \E failed \in SUBSET {p \in loc[w].snap : exists(files, p)} :
          /\ files' = [p \in Paths |->
                         IF p \in loc[w].snap /\ p \notin failed THEN "absent" ELSE files[p]]
          /\ IF failed # {} /\ RemoveHandler("OSError") = "raise"
             THEN /\ loc' = [loc EXCEPT ![w].out = "ServerError", ![w].cause = "OSError",
                                        ![w].t = 0, ![w].snap = {}]
                  /\ pc' = [pc EXCEPT ![w] = "done"]
             ELSE /\ loc' = loc
                  /\ pc' = [pc EXCEPT ![w] = "sweep_delete"]
    /\ UNCHANGED <<fm, u, now, records, nextId>>

\* expired.delete(): one DELETE with the queryset's filter; the sweep returns
\* and its locals are gone.
SweepDelete(w) ==
    /\ pc[w] = "sweep_delete"
    /\ records' = records \ expired_filter(records, loc[w].t)
    /\ loc' = [loc EXCEPT ![w].t = 0, ![w].snap = {}, ![w].swept = TRUE]
    /\ pc' = [pc EXCEPT ![w] = AfterSweep(loc[w].op)]
    /\ UNCHANGED <<fm, u, now, files, nextId>>

\* Command.handle, lines 11-12: the queryset and expired.count().
CmdCount(w) ==
    /\ pc[w] = "cmd_count"
    /\ loc' = [loc EXCEPT ![w].t = now,
                          ![w].count = Cardinality(expired_filter(records, now))]
    /\ pc' = [pc EXCEPT ![w] = "cmd_iter"]
    /\ UNCHANGED <<fm, u, now, records, files, nextId>>

CmdCutoffNow(l, clock) == clock

\* The cutoff of the command's queryset when the loop runs it: the value
\* timezone.now() had when line 11 built the filter (l are the locals, clock
\* the time of the loop).
CmdCutoff(l, clock) == l.t

\* Command.handle, line 14: the for loop runs the query again.
CmdIter(w) ==
    /\ pc[w] = "cmd_iter"
    /\ loc' = [loc EXCEPT ![w].snap = {r.file_path :
                                        r \in expired_filter(records, CmdCutoff(loc[w], now))}]
    /\ pc' = [pc EXCEPT ![w] = "sweep_files"]
    /\ UNCHANGED <<fm, u, now, records, files, nextId>>

\* Command.handle, line 22: the count is written to stdout.
CmdReport(w) ==
    /\ pc[w] = "cmd_report"
    /\ loc' = [loc EXCEPT ![w].out = "cleaned"]
    /\ pc' = [pc EXCEPT ![w] = "done"]
    /\ UNCHANGED <<fm, u, now, records, files, nextId>>

\* get_object_or_404(TemporaryDownload, id=download_id).
Get(w) ==
    /\ pc[w] = "get"
    /\ IF \E r \in records : r.id = loc[w].id
         THEN /\ loc' = [loc EXCEPT ![w].rec = CHOOSE r \in records : r.id = loc[w].id]
              /\ pc' = [pc EXCEPT ![w] = "check_expired"]
         ELSE /\ loc' = [loc EXCEPT ![w].out = "NotFound"]
              /\ pc' = [pc EXCEPT ![w] = "done"]
    /\ UNCHANGED <<fm, u, now, records, files, nextId>>

\* if download.is_expired(): the clock is read again.
CheckExpired(w) ==
    /\ pc[w] = "check_expired"
    /\ loc' = [loc EXCEPT ![w].tchk = now]
    /\ pc' = [pc EXCEPT ![w] = IF is_expired(now, loc[w].rec.expires_at)
                                  THEN "expired_rm" ELSE "check_file"]
    /\ UNCHANGED <<fm, u, now, records, files, nextId>>

\* The expired branch: os.remove of the file when it exists, errors logged.
ExpiredRemove(w) ==
    /\ pc[w] = "expired_rm"
    /\ \E ok \in BOOLEAN :
          /\ files' = IF ok THEN [files EXCEPT ![loc[w].rec.file_path] = "absent"] ELSE files
          /\ IF ~ok /\ exists(files, loc[w].rec.file_path) /\ RemoveHandler("OSError") = "raise"
             THEN /\ loc' = [loc EXCEPT ![w].out = "ServerError", ![w].cause = "OSError"]
                  /\ pc' = [pc EXCEPT ![w] = "done"]
             ELSE /\ loc' = loc
                  /\ pc' = [pc EXCEPT ![w] = "expired_delete"]
    /\ UNCHANGED <<fm, u, now, records, nextId>>

\* download.delete() and Http404("This download link has expired").
ExpiredDelete(w) ==
    /\ pc[w] = "expired_delete"
    /\ records' = {r \in records : r.id # loc[w].rec.id}
    /\ loc' = [loc EXCEPT ![w].out = "Expired"]
    /\ pc' = [pc EXCEPT ![w] = "done"]
    /\ UNCHANGED <<fm, u, now, files, nextId>>

\* if not os.path.exists(download.file_path): download.delete(); Http404.
CheckFile(w) ==
    /\ pc[w] = "check_file"
    /\ IF exists(files, loc[w].rec.file_path)
         THEN /\ pc' = [pc EXCEPT ![w] = "serve"]
              /\ UNCHANGED <<records, loc>>
         ELSE /\ records' = {r \in records : r.id # loc[w].rec.id}
              /\ loc' = [loc EXCEPT ![w].out = "FileMissing"]
              /\ pc' = [pc EXCEPT ![w] = "done"]
    /\ UNCHANGED <<fm, u, now, files, nextId>>

\* The response: convert_view renders the share page; download_from_link
\* opens the file, and open() of a file that is gone raises FileNotFoundError,
\* which no handler catches.
Serve(w) ==
    /\ pc[w] = "serve"
    /\ loc' = [loc EXCEPT ![w].out =
                  IF loc[w].op = "convert_view" THEN "page"
                  ELSE IF exists(files, loc[w].rec.file_path) THEN "stream"
                  ELSE "ServerError"]
    /\ pc' = [pc EXCEPT ![w] = "done"]
    /\ UNCHANGED <<fm, u, now, records, files, nextId>>

\* ---------------------------------------------------------- download_video
\* request.POST.get(name): None, the empty string, or a value.
ParamVals == {"None", "", "v"}

\* `not x` for a POST parameter.
Falsy(x) == x \in {"None", ""}

\* download_video, lines 198-204: the names of the parameters that are absent.
missing_paramsWrong(url, vid, fmt) ==
    (IF Falsy(url) THEN <<"video URL">> ELSE <<>>)
    \o (IF Falsy(vid) /\ ~Falsy(fmt) THEN <<"video ID">> ELSE <<>>)
    \o (IF Falsy(fmt) THEN <<"stream selection (resolution/quality)">> ELSE <<>>)
missing_params(url, vid, fmt) ==
    (IF Falsy(url) THEN <<"video URL">> ELSE <<>>)
    \o (IF Falsy(vid) THEN <<"video ID">> ELSE <<>>)
    \o (IF Falsy(fmt) THEN <<"stream selection (resolution/quality)">> ELSE <<>>)

\* The errors yt_dlp.utils.DownloadError covers: "rate" carries "HTTP Error
\* 400", "HTTP Error 403" or "Too Many Requests" in its text, "dlerr" does not.
DownloadErrors == {"rate", "dlerr"}

\* The except clause of download_video that catches error e (lines 352-365).
FetchHandler(e) == IF e \in DownloadErrors THEN "DownloadFailed" ELSE "Unexpected"

\* Lines 285-300: what one attempt raises, given what ydl.download did and
\* the state of the predicted path afterwards ("ok": nothing is raised).
VerifyWrong(res, f) ==
    IF res # "ok" THEN res
    ELSE IF f = "absent" THEN "missing"
    ELSE "ok"
Verify(res, f) ==
    IF res # "ok" THEN res
    ELSE IF f = "absent" THEN "missing"
    ELSE IF f = "empty" THEN "empty"
    ELSE "ok"

\* `if attempt == 2: raise` of both retry loops (attempt counts from 0).
IsLastAttemptWrong(attempt) == attempt = MaxAttempts
IsLastAttempt(attempt) == attempt = MaxAttempts - 1

\* Lines 193-212: the method and the parameters.
Params(w) ==
    /\ pc[w] = "params"
    /\ \E method \in {"GET", "POST"}, url \in ParamVals, vid \in ParamVals, fmt \in ParamVals :
          IF method = "GET"
          THEN /\ loc' = [loc EXCEPT ![w].out = "form"]
               /\ pc' = [pc EXCEPT ![w] = "done"]
          ELSE IF missing_params(url, vid, fmt) # <<>>
          THEN /\ loc' = [loc EXCEPT ![w].out = "MissingParams",
                                     ![w].missing = missing_params(url, vid, fmt),
                                     ![w].given = <<url, vid, fmt>>]
               /\ pc' = [pc EXCEPT ![w] = "done"]
          ELSE /\ loc' = [loc EXCEPT ![w].given = <<url, vid, fmt>>]
               /\ pc' = [pc EXCEPT ![w] = "info"]
    /\ UNCHANGED <<fm, u, now, records, files, nextId>>

\* Lines 236-275: the metadata query that predicts the output path.  It is
\* outside the retry loop: its error goes straight to the outer handlers.
Info(w) ==
    /\ pc[w] = "info"
    /\ \E res \in DownloadErrors \cup {"other", "noinfo"} \cup Paths :
          IF res \in Paths
          THEN /\ loc' = [loc EXCEPT ![w].path = res, ![w].queried = @ + 1]
               /\ pc' = [pc EXCEPT ![w] = "attempt"]
          ELSE /\ loc' = [loc EXCEPT ![w].out = FetchHandler(res), ![w].cause = res,
                                     ![w].queried = @ + 1]
               /\ pc' = [pc EXCEPT ![w] = "done"]
    /\ UNCHANGED <<fm, u, now, records, files, nextId>>

\* Lines 278-314: one pass of the retry loop.  ydl.download ends with res and
\* leaves the predicted path as eff says; the pass sets downloaded_file_path
\* and file_size when the path exists, verifies, and on an error it sleeps
\* and, on the last pass, re-raises to the outer handlers.
Attempt(w) ==
    /\ pc[w] = "attempt"
    /\ \E res \in DownloadErrors \cup {"code", "ok"}, eff \in {"keep", "empty", "data"} :
          LET f == IF eff = "keep" THEN files[loc[w].path] ELSE eff
              e == Verify(res, f)
              seen == res = "ok" /\ f # "absent"
              l1 == [loc[w] EXCEPT !.attempt = @ + 1,
                                   !.dfp = IF seen THEN loc[w].path ELSE @,
                                   !.file_size = IF seen THEN f ELSE @]
          IN  /\ files' = [files EXCEPT ![loc[w].path] = f]
              /\ IF e = "ok"
                 THEN /\ loc' = [loc EXCEPT ![w] = l1]
                      /\ pc' = [pc EXCEPT ![w] = "post_loop"]
                 ELSE IF IsLastAttempt(loc[w].attempt)
                 THEN /\ loc' = [loc EXCEPT ![w] =
                                   [l1 EXCEPT !.errs = Append(@, e),
                                              !.sleeps = @ + 1,
                                              !.out = FetchHandler(e),
                                              !.cause = e]]
                      /\ pc' = [pc EXCEPT ![w] = "done"]
                 ELSE /\ loc' = [loc EXCEPT ![w] =
                                   [l1 EXCEPT !.errs = Append(@, e),
                                              !.sleeps = @ + 1]]
                      /\ pc' = pc
    /\ UNCHANGED <<fm, u, now, records, nextId>>

\* Lines 317-318: the path is checked once more after the loop.
PostLoop(w) ==
    /\ pc[w] = "post_loop"
    /\ IF loc[w].dfp # "none" /\ exists(files, loc[w].dfp)
       THEN /\ pc' = [pc EXCEPT ![w] = "save"]
            /\ loc' = loc
       ELSE /\ loc' = [loc EXCEPT ![w].out = FetchHandler("unconfirmed"),
                                  ![w].cause = "unconfirmed"]
            /\ pc' = [pc EXCEPT ![w] = "done"]
    /\ UNCHANGED <<fm, u, now, records, files, nextId>>

\* Lines 333-338 call objects.create without expires_at, and
\* TemporaryDownload.save (models.py 16-18) sets it one hour from the clock
\* it reads.
Save(w) ==
    /\ pc[w] = "save"
    /\ loc' = [loc EXCEPT ![w].expires_at = now + Hour]
    /\ pc' = [pc EXCEPT ![w] = "create"]
    /\ UNCHANGED <<fm, u, now, records, files, nextId>>

\* models.py 19, super().save(): the row is inserted with a fresh uuid;
\* auto_now_add (models.py 11) reads the clock for created_at at the insert.
Create(w) ==
    /\ pc[w] = "create"
    /\ records' = records \cup {[id |-> nextId, created_at |-> now,
                                 expires_at |-> loc[w].expires_at,
                                 file_path |-> loc[w].path]}
    /\ nextId' = nextId + 1
    /\ loc' = [loc EXCEPT ![w].created = nextId, ![w].expires_at = 0]
    /\ pc' = [pc EXCEPT ![w] = "open"]
    /\ UNCHANGED <<fm, u, now, files>>

\* Lines 341-350: the file is opened for the response; FileNotFoundError
\* becomes Http404, which the outer `except Exception` turns into the error
\* page.
Open(w) ==
    /\ pc[w] = "open"
    /\ IF exists(files, loc[w].path)
       THEN loc' = [loc EXCEPT ![w].out = "file"]
       ELSE loc' = [loc EXCEPT ![w].out = FetchHandler("Http404"), ![w].cause = "Http404"]
    /\ pc' = [pc EXCEPT ![w] = "done"]
    /\ UNCHANGED <<fm, u, now, records, files, nextId>>

\* -------------------------------------------------------------------- home
\* The urls posted to home in this model: a watch url, a url of another
\* site, and a shorts url whose query string mentions youtube.com/watch.
IdA == <<"d", "Q", "w", "4", "w", "9", "W", "g", "X", "c", "Q">>
IdB == <<"a", "b", "c", "-", "D", "E", "F", "_", "1", "2", "3">>
HomeUrls ==
    {L_https \o L_www \o L_watch \o IdA \o << " " >>,
     L_https \o <<"e", "x", "a", "m", "p", "l", "e", ".", "c", "o", "m", "/">> \o IdA,
     L_https \o L_shorts \o IdA \o << "?", "r", "=" >> \o L_in_watch}

\* The except clause of home that catches error e (lines 169-176).
HomeHandler(e) ==
    IF e = "valueerror" THEN "ValueError"
    ELSE IF e \in DownloadErrors THEN "UpstreamUnavailable"
    ELSE "Unexpected"

\* home, lines 62-71: the url is stripped, validated and the video id
\* extracted; each failure is a ValueError with its own message.
ResolveUrl(raw) ==
    LET url == Strip(raw)
    IN  IF ~validate_youtube_url(url) THEN [out |-> "InvalidUrl", vid |-> <<>>]
        ELSE IF extract_video_id(url) = <<>> THEN [out |-> "NoVideoId", vid |-> <<>>]
        ELSE [out |-> "ok", vid |-> extract_video_id(url)]

\* Lines 61-71: the method, the url and the video id.
Validate(w) ==
    /\ pc[w] = "validate"
    /\ \E method \in {"GET", "POST"}, raw \in HomeUrls :
          IF method = "GET"
          THEN /\ loc' = [loc EXCEPT ![w].out = "form"]
               /\ pc' = [pc EXCEPT ![w] = "done"]
          ELSE IF ResolveUrl(raw).out # "ok"
          THEN /\ loc' = [loc EXCEPT ![w].out = "ValueError",
                                     ![w].cause = ResolveUrl(raw).out]
               /\ pc' = [pc EXCEPT ![w] = "done"]
          ELSE /\ loc' = [loc EXCEPT ![w].vid = ResolveUrl(raw).vid]
               /\ pc' = [pc EXCEPT ![w] = "query"]
    /\ UNCHANGED <<fm, u, now, records, files, nextId>>

\* Lines 85-108 and 156-157: one pass of the retry loop around extract_info.
\* "ok" is a video with streams, "nostreams" one without a video stream,
\* "noinfo" an empty video_info; the other results are the errors raised.
Query(w) ==
    /\ pc[w] = "query"
    /\ \E res \in DownloadErrors \cup {"valueerror", "other", "ok", "nostreams", "noinfo"} :
          IF res \in {"ok", "nostreams", "noinfo"}
          THEN /\ loc' = [loc EXCEPT ![w].attempt = @ + 1,
                                     ![w].queried = @ + 1,
                                     ![w].out = IF res = "ok" THEN "formats" ELSE "ValueError",
                                     ![w].cause = IF res = "ok" THEN "none" ELSE res]
               /\ pc' = [pc EXCEPT ![w] = "done"]
          ELSE IF IsLastAttempt(loc[w].attempt)
          THEN /\ loc' = [loc EXCEPT ![w].attempt = @ + 1,
                                     ![w].queried = @ + 1,
                                     ![w].errs = Append(@, res),
                                     ![w].sleeps = @ + 1,
                                     ![w].out = HomeHandler(res),
                                     ![w].cause = res]
               /\ pc' = [pc EXCEPT ![w] = "done"]
          ELSE /\ loc' = [loc EXCEPT ![w].attempt = @ + 1,
                                     ![w].queried = @ + 1,
                                     ![w].errs = Append(@, res),
                                     ![w].sleeps = @ + 1]
               /\ pc' = pc
    /\ UNCHANGED <<fm, u, now, records, files, nextId>>

\* ---------------------------------------------------------------- requests
\* The requests of urls.py and the management command.
Ops == {"home", "download_video", "convert_view", "download_from_link", "cleanup_command"}

\* A request arrives at an idle worker; download_id is the uuid of the url.
StartRequest(w) ==
    /\ pc[w] = "done"
    /\ \E op \in Ops, id \in 1..MaxIds :
          /\ op = "download_video" => nextId <= MaxIds
          /\ op \notin {"convert_view", "download_from_link"} => id = 1
          /\ loc' = [loc EXCEPT ![w] =
                       [InitLoc EXCEPT !.op = op,
                                       !.id = IF op \in {"convert_view", "download_from_link"}
                                              THEN id ELSE 0,
                                       !.stale = /\ op \in {"convert_view", "download_from_link"}
                                                 /\ \E r \in records :
                                                       r.id = id /\ r.expires_at < now]]
          /\ pc' = [pc EXCEPT ![w] = FirstPc(op)]
    /\ UNCHANGED <<fm, u, now, records, files, nextId>>

\* The positions at which a handler waits for yt-dlp: extract_info of home
\* (line 89) and of download_video (line 237), and ydl.download (line 283).
UpstreamPcs == {"query", "info", "attempt"}

\* The upstream never answers the call the handler is waiting in.  No
\* option of ydl_opts (lines 74-81, 229-233, 245-262) and no statement of
\* the views bounds the time of a call, so the handler stays in it.
NoResponse(w) ==
    /\ pc[w] \in UpstreamPcs
    /\ pc' = [pc EXCEPT ![w] = "blocked"]
    /\ UNCHANGED <<fm, u, now, records, files, nextId, loc>>

\* One step of the handler that worker w runs.
Step(w) ==
    \/ StartRequest(w)
    \/ SweepBegin(w)
    \/ SweepFiles(w)
    \/ SweepDelete(w)
    \/ CmdCount(w)
    \/ CmdIter(w)
    \/ CmdReport(w)
    \/ Get(w)
    \/ CheckExpired(w)
    \/ ExpiredRemove(w)
    \/ ExpiredDelete(w)
    \/ CheckFile(w)
    \/ Serve(w)
    \/ Params(w)
    \/ Info(w)
    \/ Attempt(w)
    \/ PostLoop(w)
    \/ Save(w)
    \/ Create(w)
    \/ Open(w)
    \/ Validate(w)
    \/ Query(w)
    \/ NoResponse(w)

Next ==
    \/ Tick
    \/ \E p \in Paths : ExternalRemove(p)
    \/ \E w \in Workers : Step(w)

Spec == Init /\ [][Next]_vars

\* The same program with its scheduling: a handler that can take a step
\* takes one (the server runs every request it accepted).
SpecLive == Spec /\ \A w \in Workers : WF_vars(Step(w))

\* ------------------------------------------------- resolution of every url
\* The urls of the second specification: a head (scheme, optional host
\* prefix, site and path) followed by at most MaxTail pieces.
UrlHeads ==
    {sch \o www \o h : sch \in {L_https, L_http, <<>>}, www \in {<<>>, L_www},
                       h \in {L_watch, L_short, L_shorts, L_live, L_embed,
                              <<"e", "x", "a", "m", "p", "l", "e", ".", "c", "o", "m", "/">>}}
UrlPieces ==
    {IdA, IdB, << "x", "y" >>, << "&" >>, << " " >>, L_short, L_in_watch}

InitUrl ==
    /\ now = 0
    /\ records = {}
    /\ files = [p \in Paths |-> "absent"]
    /\ nextId = 1
    /\ pc = [w \in Workers |-> "done"]
    /\ loc = [w \in Workers |-> InitLoc]
    /\ \E h \in UrlHeads : u = [NoUrl EXCEPT !.url = h]
    /\ fm = NoFm

\* The user types one more piece of the url.
UrlAppend(piece) ==
    /\ u.out = "none"
    /\ u.n < MaxTail
    /\ u' = [u EXCEPT !.url = @ \o piece, !.n = @ + 1]
    /\ UNCHANGED <<fm, now, records, files, nextId, pc, loc>>

\* home resolves the url.
UrlResolve ==
    /\ u.out = "none"
    /\ u' = [u EXCEPT !.out = ResolveUrl(u.url).out, !.vid = ResolveUrl(u.url).vid]
    /\ UNCHANGED <<fm, now, records, files, nextId, pc, loc>>

NextUrl ==
    \/ \E piece \in UrlPieces : UrlAppend(piece)
    \/ UrlResolve

SpecUrl == InitUrl /\ [][NextUrl]_vars

\* ------------------------------------------------------- the format list
\* The characters of a resolution label are kept one by one, as for urls.
Digits == <<"0", "1", "2", "3", "4", "5", "6", "7", "8", "9">>
IsDigit(c) == \E i \in 1..Len(Digits) : Digits[i] = c
DigitVal(c) == (CHOOSE i \in 1..Len(Digits) : Digits[i] = c) - 1

\* str(n) of a non-negative integer.
RECURSIVE IntToStr(_)
IntToStr(n) ==
    IF n < 10 THEN <<Digits[n + 1]>>
    ELSE IntToStr(n \div 10) \o <<Digits[(n % 10) + 1]>>

\* int(s) of a string of digits.
RECURSIVE StrToInt(_)
StrToInt(s) ==
    IF s = <<>> THEN 0
    ELSE 10 * StrToInt(SubSeq(s, 1, Len(s) - 1)) + DigitVal(s[Len(s)])

\* re.sub(r'\D', '', s) of line 144.
StripNonDigits(s) == SelectSeq(s, IsDigit)

L_1280x720 == <<"1", "2", "8", "0", "x", "7", "2", "0">>
L_640x360 == <<"6", "4", "0", "x", "3", "6", "0">>
L_audio_only == <<"a", "u", "d", "i", "o", " ", "o", "n", "l", "y">>

\* The formats yt-dlp reports in this model.  vcodec "null" is a format
\* whose 'vcodec' is absent or None, "none" the marker of a format without
\* video; height 0 and resolution <<>> are an absent or None value (both
\* falsy, as 0 and '' are).
RawFormats ==
    {[vcodec |-> "avc1", height |-> 720, resolution |-> L_1280x720],
     [vcodec |-> "vp9", height |-> 720, resolution |-> L_1280x720],
     [vcodec |-> "avc1", height |-> 360, resolution |-> L_640x360],
     [vcodec |-> "vp9", height |-> 1080, resolution |-> <<>>],
     [vcodec |-> "none", height |-> 0, resolution |-> L_audio_only],
     [vcodec |-> "null", height |-> 360, resolution |-> L_640x360],
     [vcodec |-> "avc1", height |-> 0, resolution |-> L_640x360]}

\* Line 122: f.get('vcodec') != 'none' and f.get('height').
Included(f) == f.vcodec # "none" /\ f.height # 0

\* Lines 123-133: the entry of streams_for_template made of format f;
\* 'resolution' is f.get('resolution') or f.get('height') (kept here as the
\* text the template prints).
StreamOf(f) ==
    [resolution |-> IF f.resolution # <<>> THEN f.resolution ELSE IntToStr(f.height),
     vcodec |-> f.vcodec]

\* Lines 139-148: the digits of the resolution (or '0'), as an integer.
get_resolution_sort_key(stream) ==
    LET res_val_str == IF stream.resolution # <<>> THEN stream.resolution ELSE <<"0">>
        numeric_res_str == StripNonDigits(res_val_str)
    IN  IF numeric_res_str # <<>> THEN StrToInt(numeric_res_str) ELSE 0

\* Where list.sort(key=..., reverse=True) puts stream x among the streams
\* already sorted: behind every stream whose key is not smaller (the sort is
\* stable, also when reversed).
RECURSIVE InsertTiesFirst(_, _)
InsertTiesFirst(sorted, x) ==
    IF sorted = <<>> THEN <<x>>
    ELSE IF get_resolution_sort_key(Head(sorted)) > get_resolution_sort_key(x)
         THEN <<Head(sorted)>> \o InsertTiesFirst(Tail(sorted), x)
         ELSE <<x>> \o sorted

RECURSIVE Insert(_, _)
Insert(sorted, x) ==
    IF sorted = <<>> THEN <<x>>
    ELSE IF get_resolution_sort_key(Head(sorted)) >= get_resolution_sort_key(x)
         THEN <<Head(sorted)>> \o Insert(Tail(sorted), x)
         ELSE <<x>> \o sorted

\* Line 153: streams_for_template.sort(key=get_resolution_sort_key,
\* reverse=True).
RECURSIVE SortStreams(_)
SortStreams(streams) ==
    IF streams = <<>> THEN <<>>
    ELSE Insert(SortStreams(SubSeq(streams, 1, Len(streams) - 1)),
                streams[Len(streams)])

\* Lines 116-135: the loop over video_info['formats'].
RECURSIVE FilterFormats(_)
FilterFormats(formats) ==
    IF formats = <<>> THEN <<>>
    ELSE IF Included(Head(formats))
         THEN <<StreamOf(Head(formats))>> \o FilterFormats(Tail(formats))
         ELSE FilterFormats(Tail(formats))

InitFormats ==
    /\ now = 0
    /\ records = {}
    /\ files = [p \in Paths |-> "absent"]
    /\ nextId = 1
    /\ pc = [w \in Workers |-> "done"]
    /\ loc = [w \in Workers |-> InitLoc]
    /\ u = NoUrl
    /\ fm = NoFm

\* yt-dlp reports one more format of the video.
FormatAppend(f) ==
    /\ ~fm.built
    /\ Len(fm.raw) < MaxFormats
    /\ fm' = [fm EXCEPT !.raw = Append(@, f)]
    /\ UNCHANGED <<u, now, records, files, nextId, pc, loc>>

\* home builds and sorts streams_for_template (lines 113-153).
BuildStreams ==
    /\ ~fm.built
    /\ fm' = [fm EXCEPT !.built = TRUE, !.out = SortStreams(FilterFormats(fm.raw))]
    /\ UNCHANGED <<u, now, records, files, nextId, pc, loc>>

NextFormats ==
    \/ \E f \in RawFormats : FormatAppend(f)
    \/ BuildStreams

SpecFormats == InitFormats /\ [][NextFormats]_vars

\* ------------------------------------------------ sweeps running at once
\* The fourth specification: two workers, each running the sweep of a home
\* request or the cleanup_downloads command, over a table of three records
\* created earlier (two of them of the same title, hence the same path).
\* Here the file loop takes one file operation per step, so that the other
\* sweep can act between os.path.exists and os.remove.
ConcWorkers == {"w1", "w2"}
ConcRecords ==
    {[id |-> 1, created_at |-> 0, expires_at |-> 1, file_path |-> "a.mp4"],
     [id |-> 2, created_at |-> 1, expires_at |-> 2, file_path |-> "b.mp4"],
     [id |-> 3, created_at |-> 2, expires_at |-> 3, file_path |-> "a.mp4"]}
ConcFiles == [p \in Paths |-> "data"]
SweepOps == {"home", "cleanup_command"}

InitConc ==
    /\ now = 0
    /\ records = ConcRecords
    /\ files = ConcFiles
    /\ nextId = 4
    /\ pc = [w \in ConcWorkers |-> "done"]
    /\ loc = [w \in ConcWorkers |-> InitLoc]
    /\ u = NoUrl
    /\ fm = NoFm

\* A home request or the command starts at an idle worker.
SweepRequest(w) == StartRequest(w) /\ loc'[w].op \in SweepOps

\* utils.py 23-24 (command 14-15): the next record of the loop and
\* os.path.exists of its file; the loop ends when no record is left.
LoopNext(w) ==
    /\ pc[w] = "sweep_files"
    /\ IF loc[w].snap = {}
       THEN /\ pc' = [pc EXCEPT ![w] = "sweep_delete"]
            /\ loc' = loc
       ELSE \E p \in loc[w].snap :
               IF exists(files, p)
               THEN /\ loc' = [loc EXCEPT ![w].cur = p]
                    /\ pc' = [pc EXCEPT ![w] = "sweep_remove"]
               ELSE /\ loc' = [loc EXCEPT ![w].snap = @ \ {p}]
                    /\ pc' = pc
    /\ UNCHANGED <<fm, u, now, records, files, nextId>>

\* utils.py 25-28 (command 16-19): os.remove inside try/except.  The file
\* may have been removed since the exists test (FileNotFoundError), or the
\* removal may fail (OSError).
LoopRemove(w) ==
    /\ pc[w] = "sweep_remove"
    /\ \E e \in IF exists(files, loc[w].cur)
                THEN {"removed", "OSError"} ELSE {"FileNotFoundError"} :
          /\ files' = IF e = "removed"
                      THEN [files EXCEPT ![loc[w].cur] = "absent"] ELSE files
          /\ IF e # "removed" /\ RemoveHandler(e) = "raise"
             THEN /\ loc' = [loc EXCEPT ![w].out = "ServerError", ![w].cause = e,
                                        ![w].t = 0, ![w].snap = {}, ![w].cur = "none"]
                  /\ pc' = [pc EXCEPT ![w] = "done"]
             ELSE /\ loc' = [loc EXCEPT ![w].snap = @ \ {loc[w].cur}, ![w].cur = "none"]
                  /\ pc' = [pc EXCEPT ![w] = "sweep_files"]
    /\ UNCHANGED <<fm, u, now, records, nextId>>

\* home after its sweep, for a request that ends without a query (a GET, or
\* a url that is refused).
HomeEnds(w) == Validate(w) /\ pc'[w] = "done"

NextConc ==
    \/ Tick
    \/ \E w \in ConcWorkers :
          \/ SweepRequest(w)
          \/ SweepBegin(w)
          \/ CmdCount(w)
          \/ CmdIter(w)
          \/ LoopNext(w)
          \/ LoopRemove(w)
          \/ SweepDelete(w)
          \/ CmdReport(w)
          \/ HomeEnds(w)

SpecConc == InitConc /\ [][NextConc]_vars

\* --------------------------------------- retrievals and sweeps at once
\* The fifth specification: two workers, each running download_from_link or
\* a home request (for its sweep), over the same table of earlier records.
RaceOps == {"download_from_link", "home"}

\* A download_from_link or a home request starts at an idle worker.
RaceRequest(w) == StartRequest(w) /\ loc'[w].op \in RaceOps

NextRace ==
    \/ Tick
    \/ \E w \in ConcWorkers :
          \/ RaceRequest(w)
          \/ SweepBegin(w)
          \/ SweepFiles(w)
          \/ SweepDelete(w)
          \/ Get(w)
          \/ CheckExpired(w)
          \/ ExpiredRemove(w)
          \/ ExpiredDelete(w)
          \/ CheckFile(w)
          \/ Serve(w)
          \/ HomeEnds(w)

SpecRace == InitConc /\ [][NextRace]_vars

\* ================================================================== claims
Retrievals == {"convert_view", "download_from_link"}
Served == {"stream", "page"}
RecordIds == {r.id : r \in records}
Range(q) == {q[i] : i \in 1..Len(q)}

\* C1: download_from_link and convert_view never return the artifact (the
\* file stream or the share page) when its expires_at is earlier than the
\* time the handler read for its expiry check.
C1_NeverServedExpired ==
    \A w \in Workers :
        (loc[w].op \in Retrievals /\ loc[w].out \in Served)
            => loc[w].rec.expires_at >= loc[w].tchk

\* C1 witness: an artifact was streamed at the very instant of its expiry.
C1_Witness ==
    \E w \in Workers :
        /\ pc[w] = "done"
        /\ loc[w].out = "stream"
        /\ loc[w].rec.id # 0
        /\ loc[w].tchk = loc[w].rec.expires_at

\* C2 (as claimed): a retrieve of an id whose record existed with expires_at
\* in the past when the request arrived ends with Expired, not NotFound.
C2_ExpiredNotNotFound ==
    \A w \in Workers :
        (pc[w] = "done" /\ loc[w].op \in Retrievals /\ loc[w].stale)
            => loc[w].out = "Expired"

\* C3: download_video creates a record only after a pass of the loop that saw
\* the predicted path on disk with a size that is not zero, and when all
\* three passes fail no record is created and the request fails.
C3_CreateOnlyVerified ==
    \A w \in Workers :
        loc[w].op = "download_video" =>
            /\ (pc[w] \in {"save", "create", "open"} \/ loc[w].created # 0)
                  => (loc[w].file_size = "data" /\ loc[w].dfp = loc[w].path)
            /\ Len(loc[w].errs) = MaxAttempts
                  => /\ pc[w] = "done"
                     /\ loc[w].created = 0
                     /\ loc[w].out \in {"DownloadFailed", "Unexpected"}

\* C3 witness: a record was created after a first pass that left an empty
\* file and a second pass that left data.
C3_Witness ==
    \E w \in Workers :
        /\ loc[w].op = "download_video"
        /\ loc[w].created # 0
        /\ loc[w].errs = << "empty" >>
        /\ \E r \in records : r.id = loc[w].created

\* C4: the DELETE that ends a sweep (of a view or of the command) removes
\* exactly the records with expires_at <= the sweep's now, which is the
\* clock's value when the sweep began.
C4_SweepRemovesExactlyExpired ==
    [][\A w \in Workers :
          /\ (pc[w] = "sweep_delete" /\ pc'[w] # "sweep_delete")
                => records' = {r \in records : r.expires_at > loc[w].t}
          /\ (pc[w] \in {"sweep_begin", "cmd_count"} /\ pc'[w] # pc[w])
                => loc'[w].t = now]_vars

\* C4 witness: a sweep is about to delete a record that expired one unit
\* before its now while a record that expires later stays.
C4_Witness ==
    \E w \in Workers :
        /\ pc[w] = "sweep_delete"
        /\ \E r \in records : r.expires_at = loc[w].t - 1
        /\ \E r \in records : r.expires_at > loc[w].t

\* C5: a sweep that follows a sweep with the same now (so that no record has
\* expires_at <= now when it begins) selects nothing, removes no file and
\* deletes no record.
C5_SecondSweepNoOp ==
    [][\A w \in Workers :
          /\ (pc[w] = "sweep_delete" /\ pc'[w] # "sweep_delete")
                => \A r \in records' : r.expires_at > loc[w].t
          /\ (pc[w] \in {"sweep_begin", "cmd_iter"} /\ pc'[w] = "sweep_files"
                /\ \A r \in records : r.expires_at > loc'[w].t)
                => loc'[w].snap = {}
          /\ (pc[w] = "sweep_files" /\ pc'[w] = "sweep_delete" /\ loc[w].snap = {})
                => files' = files
          /\ (pc[w] = "sweep_delete" /\ pc'[w] # "sweep_delete"
                /\ \A r \in records : r.expires_at > loc[w].t)
                => records' = records]_vars

\* C5 witness: a sweep with nothing to reclaim runs after earlier records
\* were reclaimed, with a file still on disk.
C5_Witness ==
    \E w \in Workers :
        /\ pc[w] = "sweep_delete"
        /\ loc[w].snap = {}
        /\ loc[w].t >= 1
        /\ records = {}
        /\ nextId > 1
        /\ \E p \in Paths : files[p] # "absent"

\* C6: a retrieve that finds its record unexpired and the file absent deletes
\* the record and fails with FileMissing; the id never comes back, and a
\* retrieve of an id without a record fails with NotFound.
C6_FileMissingReclaims ==
    [][\A w \in Workers :
          /\ (pc[w] = "check_file" /\ pc'[w] # "check_file"
                /\ files[loc[w].rec.file_path] = "absent")
                => /\ loc'[w].out = "FileMissing"
                   /\ loc[w].id \notin {r.id : r \in records'}
          /\ (pc[w] = "check_file" /\ pc'[w] # "check_file"
                /\ files[loc[w].rec.file_path] # "absent")
                => /\ loc'[w].out = "none"
                   /\ records' = records
          /\ \A i \in 1..MaxIds :
                (i < nextId /\ i \notin RecordIds) => i \notin {r.id : r \in records'}
          /\ (pc[w] = "get" /\ pc'[w] # "get" /\ loc[w].id \notin RecordIds)
                => loc'[w].out = "NotFound"]_vars

\* C6 witness: a retrieve ended with FileMissing for a record that had not
\* expired, and the record is gone.
C6_Witness ==
    \E w \in Workers :
        /\ pc[w] = "done"
        /\ loc[w].out = "FileMissing"
        /\ loc[w].rec.expires_at >= loc[w].tchk
        /\ loc[w].id \notin RecordIds

\* C7: download_video makes at most three passes of its loop, makes no pass
\* after one that passed verification, and when all three fail it fails with
\* the error of the third pass as its cause.
C7_ThreeAttemptsLastCause ==
    \A w \in Workers :
        loc[w].op = "download_video" =>
            /\ loc[w].attempt <= MaxAttempts
            /\ Len(loc[w].errs) <= loc[w].attempt
            /\ loc[w].attempt <= Len(loc[w].errs) + 1
            /\ loc[w].attempt = Len(loc[w].errs) + 1 => pc[w] # "attempt"
            /\ Len(loc[w].errs) = MaxAttempts
                  => /\ pc[w] = "done"
                     /\ loc[w].out \in {"DownloadFailed", "Unexpected"}
                     /\ loc[w].cause = loc[w].errs[MaxAttempts]

\* C7 witness: three passes failed with three different errors and the
\* request failed with the third.
C7_Witness ==
    \E w \in Workers :
        /\ loc[w].op = "download_video"
        /\ pc[w] = "done"
        /\ loc[w].errs = << "rate", "empty", "missing" >>
        /\ loc[w].cause = "missing"

\* The failures of home that say the video details could not be fetched.
UpstreamFailures == {"UpstreamUnavailable", "Unexpected"}

\* C8 (as claimed): home makes at most three queries, none after a query
\* that succeeded, and when all three fail, whatever the errors, it fails as
\* an upstream failure with the error of the last query.
C8_UpstreamUnavailableAfterThree ==
    \A w \in Workers :
        loc[w].op = "home" =>
            /\ loc[w].queried <= MaxAttempts
            /\ loc[w].queried <= Len(loc[w].errs) + 1
            /\ loc[w].queried = Len(loc[w].errs) + 1 => pc[w] # "query"
            /\ Len(loc[w].errs) = MaxAttempts
                  => /\ pc[w] = "done"
                     /\ loc[w].out \in UpstreamFailures
                     /\ loc[w].cause = loc[w].errs[MaxAttempts]

\* The names download_video gives the three parameters.
ParamNames == << "video URL", "video ID", "stream selection (resolution/quality)" >>

\* C9: a POST to download_video with some parameter absent fails with
\* MissingParams, names exactly the absent parameters, queries nothing and
\* creates no record.
C9_MissingParamsNamed ==
    \A w \in Workers :
        (loc[w].op = "download_video" /\ loc[w].given # <<>>
            /\ \E i \in 1..3 : Falsy(loc[w].given[i]))
            => /\ pc[w] = "done"
               /\ loc[w].out = "MissingParams"
               /\ \A i \in 1..3 :
                     ParamNames[i] \in Range(loc[w].missing) <=> Falsy(loc[w].given[i])
               /\ Range(loc[w].missing) \subseteq Range(ParamNames)
               /\ loc[w].queried = 0
               /\ loc[w].created = 0

\* C9 witness: the url is present, the video id and the stream selection are
\* absent, and both are named.
C9_Witness ==
    \E w \in Workers :
        /\ loc[w].out = "MissingParams"
        /\ loc[w].given = << "v", "None", "" >>
        /\ loc[w].missing = << "video ID", "stream selection (resolution/quality)" >>

\* The eleven characters the matched shape captures.
ShapeCapture(url) ==
    LET pre == CHOOSE q \in ShapePrefixes : MatchesPrefix(url, q)
    IN  SubSeq(url, Len(pre) + 1, Len(pre) + IdLen)

\* C10 (as claimed): for a url that matches one of the five shapes, resolve
\* yields the eleven characters the shape captures; for any other string it
\* fails with InvalidUrl and yields no video id.
C10_ExtractsCapturedId ==
    u.out # "none" =>
        IF validate_youtube_url(Strip(u.url))
        THEN u.out = "ok" /\ u.vid = ShapeCapture(Strip(u.url))
        ELSE u.out = "InvalidUrl" /\ u.vid = <<>>

\* C11: the list of formats home builds never holds an entry without a
\* video codec (vcodec absent or None, or the marker 'none') nor one without
\* a known height or resolution.
C11_OnlyVideoWithHeight ==
    fm.built =>
        \A i \in 1..Len(fm.out) :
            /\ fm.out[i].vcodec \notin {"null", "none"}
            /\ fm.out[i].resolution # <<>>

\* C12: the list home builds is in descending order of the resolution key
\* (the digits of the resolution label or of the height, as an integer, 0
\* when there are none), and the entries of equal key stand in the order in
\* which yt-dlp reported them.
C12_SortedStable ==
    fm.built =>
        LET kept == FilterFormats(fm.raw)
            Keys == {get_resolution_sort_key(fm.out[i]) : i \in 1..Len(fm.out)}
        IN  /\ Len(fm.out) = Len(kept)
            /\ \A i, j \in 1..Len(fm.out) :
                  i < j => get_resolution_sort_key(fm.out[i])
                               >= get_resolution_sort_key(fm.out[j])
            /\ \A k \in Keys \cup {get_resolution_sort_key(kept[i]) : i \in 1..Len(kept)} :
                  LET HasKey(x) == get_resolution_sort_key(x) = k
                  IN  SelectSeq(fm.out, HasKey) = SelectSeq(kept, HasKey)

\* C12 witness: a list that the sort had to reorder, with two different
\* entries of the same key and an entry whose key comes from the height.
C12_Witness ==
    /\ fm.built
    /\ fm.out # FilterFormats(fm.raw)
    /\ \E i, j \in 1..Len(fm.out) :
          /\ i < j
          /\ fm.out[i] # fm.out[j]
          /\ get_resolution_sort_key(fm.out[i]) = get_resolution_sort_key(fm.out[j])
    /\ \E i \in 1..Len(fm.out) : get_resolution_sort_key(fm.out[i]) = 1080

\* What a finished sweep hands to its caller: cleanup_expired_downloads has
\* no return statement (the set is empty), the command reports its count.
SweepReturn(l) == IF l.op = "cleanup_command" THEN {l.count} ELSE {}

\* C13: a sweep, of a request or of the command, returns the number of
\* records it removed: the size of the table before its delete minus the
\* size after it.
C13_SweepReturnsRemoved ==
    [][\A w \in Workers :
          (pc[w] = "sweep_delete" /\ pc'[w] # "sweep_delete")
              => SweepReturn(loc'[w]) = {Cardinality(records) - Cardinality(records')}]_vars

\* C14: every record created without an explicit expires_at (all records
\* are: objects.create of download_video passes none) has expires_at equal
\* to created_at plus one hour exactly.
C14_ExpiresOneHourAfterCreation ==
    \A r \in records : r.expires_at = r.created_at + Hour

\* The four views of urls.py, and the positions inside the sweep.
Views == Ops \ {"cleanup_command"}
SweepPcs == {"sweep_begin", "sweep_files", "sweep_delete"}

\* C15: in home, download_video, convert_view and download_from_link the
\* sweep has returned before the handler reads, creates or deletes a record
\* or calls yt-dlp: until then the handler is inside the sweep and has
\* fetched no record, queried nothing, attempted nothing and created
\* nothing.
C15_SweepBeforeOperation ==
    \A w \in Workers :
        (loc[w].op \in Views /\ ~loc[w].swept)
            => /\ pc[w] \in SweepPcs
               /\ loc[w].rec = NoRec
               /\ loc[w].queried = 0
               /\ loc[w].attempt = 0
               /\ loc[w].created = 0
               /\ loc[w].out = "none"

\* C15 witness: a download_video that created a record after its sweep,
\* while an older record was in the table.
C15_Witness ==
    \E w \in Workers :
        /\ loc[w].op = "download_video"
        /\ loc[w].swept
        /\ loc[w].created # 0
        /\ \E r \in records : r.id # loc[w].created

\* C16: every home and every download_video request that has started
\* completes, also when the upstream never answers a call.
C16_RequestsComplete ==
    \A w \in Workers :
        (loc[w].op \in {"home", "download_video"} /\ pc[w] # "done") ~> (pc[w] = "done")

\* The positions at which a reclaim removes files: the loop of the sweep
\* and the expired branch of the two retrieval views.
FileRemovalPcs == {"sweep_files", "expired_rm"}

\* C17: a step of a reclaim that removes the file of a record removes the
\* record in the same step, unless the record was removed before: no state
\* has a record whose file was removed by the reclaim.
C17_RecordBeforeFile ==
    [][\A w \in Workers :
          \A r \in records :
              (/\ pc[w] \in FileRemovalPcs
               /\ pc'[w] # pc[w]
               /\ files[r.file_path] # "absent"
               /\ files'[r.file_path] = "absent")
                  => r \notin records']_vars

\* What one sweep with cutoff t leaves of the table and the files it
\* started from, when the removals of the files in failed did not succeed.
SingleSweep(rs, fs, t, failed) ==
    [records |-> rs \ expired_filter(rs, t),
     files |-> [p \in Paths |->
                  IF p \in {r.file_path : r \in expired_filter(rs, t)} /\ p \notin failed
                  THEN "absent" ELSE fs[p]]]

\* C18: when sweeps run at once, none ends with an error, and once all of
\* them have ended the table and the files are those one sweep leaves
\* (removing a record or a file that the other sweep removed changes
\* nothing).
C18_ConcurrentSweeps ==
    /\ \A w \in DOMAIN pc : loc[w].out # "ServerError"
    /\ (\A w \in DOMAIN pc : pc[w] = "done" /\ loc[w].swept)
          => \E t \in 0..now, failed \in SUBSET Paths :
                /\ records = SingleSweep(ConcRecords, ConcFiles, t, failed).records
                /\ files = SingleSweep(ConcRecords, ConcFiles, t, failed).files

\* C18 witness: a sweep is about to remove a file that the other sweep
\* removed after this one saw it on disk, and the other sweep has ended.
C18_Witness ==
    \E w, v \in DOMAIN pc :
        /\ w # v
        /\ pc[w] = "sweep_remove"
        /\ files[loc[w].cur] = "absent"
        /\ pc[v] = "done"
        /\ loc[v].swept
        /\ records # ConcRecords

\* C19: the command and the sweep of a request do the same to the table and
\* to the files: each takes the clock's value as its cutoff when it builds
\* its queryset, removes (where the removal succeeds) the files of the
\* records expired at that cutoff and no other file, and deletes those
\* records and no other; what either leaves is what SingleSweep gives.
C19_CommandEqualsSweep ==
    [][\A w \in Workers :
          /\ (pc[w] \in {"sweep_begin", "cmd_count"} /\ pc'[w] # pc[w])
                => loc'[w].t = now
          /\ (pc[w] = "sweep_files" /\ pc'[w] = "sweep_delete")
                => \E failed \in SUBSET Paths :
                      files' = SingleSweep(records, files, loc[w].t, failed).files
          /\ (pc[w] = "sweep_delete" /\ pc'[w] # "sweep_delete")
                => /\ records' = SingleSweep(records, files, loc[w].t, {}).records
                   /\ files' = files]_vars

\* C19 witness: the command removed the file of a record that had expired
\* at its cutoff and is about to delete the record, while another record
\* expired after the cutoff, before the loop ran.
C19_Witness ==
    \E w \in Workers :
        /\ loc[w].op = "cleanup_command"
        /\ pc[w] = "sweep_delete"
        /\ loc[w].count = 1
        /\ \E r \in records : r.expires_at <= loc[w].t /\ files[r.file_path] = "absent"
        /\ \E r \in records : r.expires_at > loc[w].t /\ r.expires_at <= now
                                 /\ files[r.file_path] # "absent"

\* C20: home and download_video sleep only after a failed attempt that is
\* followed by another attempt: a request that made k attempts slept at
\* most k - 1 times, and did not sleep after its third failure.
C20_SleepsBetweenAttempts ==
    \A w \in Workers :
        (pc[w] = "done" /\ loc[w].attempt > 0)
            => loc[w].sleeps <= loc[w].attempt - 1

\* How many times download_video made the yt-dlp call that failed last:
\* the passes of the download loop, or, when the loop was never entered,
\* the metadata queries.
FailedCallTries(l) == IF l.attempt > 0 THEN l.attempt ELSE l.queried

\* C21: download_video never ends with an upstream error (a DownloadError of
\* yt-dlp, from the metadata query or from a download) after a single
\* failed call: the failed call was retried first.
C21_UpstreamErrorRetried ==
    \A w \in Workers :
        (/\ loc[w].op = "download_video"
         /\ pc[w] = "done"
         /\ loc[w].cause \in DownloadErrors)
            => FailedCallTries(loc[w]) > 1

\* C22: a failure of os.remove during a reclaim (in the sweep of a request,
\* in the command, in the expired branch of a retrieval) does not end the
\* handler, and the delete that follows removes every record that was due,
\* whether or not its file is still on disk.
C22_RemoveFailureKeepsReclaim ==
    [][\A w \in Workers :
          /\ (pc[w] = "sweep_files" /\ pc'[w] # pc[w])
                => (pc'[w] = "sweep_delete" /\ loc'[w].out = loc[w].out)
          /\ (pc[w] = "expired_rm" /\ pc'[w] # pc[w])
                => (pc'[w] = "expired_delete" /\ loc'[w].out = loc[w].out)
          /\ (pc[w] = "sweep_delete" /\ pc'[w] # pc[w])
                => \A r \in records : r.expires_at <= loc[w].t => r \notin records'
          /\ (pc[w] = "expired_delete" /\ pc'[w] # pc[w])
                => (loc[w].rec \notin records' /\ loc'[w].out = "Expired")]_vars

\* C22 witness: a retrieval ended with Expired and its record is gone
\* while the file, whose removal failed, is still on disk.
C22_Witness ==
    \E w \in Workers :
        /\ pc[w] = "done"
        /\ loc[w].out = "Expired"
        /\ loc[w].rec.id \notin RecordIds
        /\ files[loc[w].rec.file_path] # "absent"
        /\ \A r \in records : r.file_path # loc[w].rec.file_path

\* The outcomes of a retrieval by id that the contract names.
RetrieveOutcomes == {"stream", "NotFound", "Expired", "FileMissing"}

\* C23: whatever sweeps and retrievals run at the same time,
\* download_from_link ends with the file stream, NotFound, Expired or
\* FileMissing, never with an unhandled error.
C23_RetrieveOutcomes ==
    \A w \in DOMAIN pc :
        (loc[w].op = "download_from_link" /\ pc[w] = "done")
            => loc[w].out \in RetrieveOutcomes

\* The liveness rule: a record is live when it has not passed its
\* expires_at and its file is on disk.
Live(r) == now <= r.expires_at /\ files[r.file_path] # "absent"

\* The records a reclaim step of worker w is reclaiming: those expired at
\* the cutoff of its sweep, or the one record of its expired branch.
Reclaimed(w) ==
    IF pc[w] \in {"sweep_files", "sweep_delete"}
    THEN expired_filter(records, loc[w].t)
    ELSE {r \in records : r.id = loc[w].rec.id}

\* C24: a reclaim step (the file loop and the delete of a sweep, the
\* os.remove and the delete of an expired retrieval, the delete of a
\* retrieval whose file is missing) leaves every other record that is live
\* in the table and leaves its file on disk, also when two records were
\* made from videos of the same title.
C24_ArtifactsIndependent ==
    [][\A w \in Workers :
          (/\ pc[w] \in {"sweep_files", "sweep_delete", "expired_rm",
                         "expired_delete", "check_file"}
           /\ pc'[w] # pc[w])
              => \A r \in records \ Reclaimed(w) :
                    Live(r) => (r \in records' /\ files'[r.file_path] # "absent")]_vars

\* C25: a sweep (of a request or of the command) selects for reclaim no
\* record that is live when the sweep reads the clock, in particular none
\* whose expires_at equals that instant: whatever is_expired() still
\* accepts, the sweep leaves alone.
C25_SweepSparesLive ==
    [][\A w \in Workers :
          (pc[w] \in {"sweep_begin", "cmd_count"} /\ pc'[w] # pc[w])
              => \A r \in expired_filter(records, loc'[w].t) : ~Live(r)]_vars

\* C26: when download_video ends with anything but the file response, the
\* table holds no record that this request created.
C26_FailureLeavesNoRecord ==
    \A w \in Workers :
        (loc[w].op = "download_video" /\ pc[w] = "done" /\ loc[w].out # "file")
            => loc[w].created \notin RecordIds
====
